---------------------------- MODULE Spec2Model ----------------------------
(***************************************************************************)
(* Oraculus web client: the card navigation engine (GameEngine.tsx), the   *)
(* card stack (CardStack.tsx) and the story card's input resolution        *)
(* (StoryCard.tsx).                                                        *)
(*                                                                         *)
(* Arrays are JavaScript arrays: positions count from 0, and reading a     *)
(* position outside the array yields Undefined.  A sequence s of this      *)
(* module holds array position i at s[i + 1].                              *)
(***************************************************************************)
EXTENDS Integers, Sequences, FiniteSets, TLC

VARIABLES
    protagonist,       \* gameState.protagonist: Null or a Protagonist
    currentNode,       \* gameState.currentNode: Null, Undefined or a StoryNode
    gameHistory,       \* gameState.gameHistory
    isGameStarted,     \* gameState.isGameStarted
    isLoading,         \* gameState.isLoading
    storyNodes,        \* GameEngine's storyNodes
    currentNodeIndex,  \* GameEngine's currentNodeIndex
    activeCardIndex,   \* CardStack's activeCardIndex
    lastEvent,         \* log of the last interaction: what it was, on which
                       \* node and state it was resolved, the ids it emitted
    validCalls,        \* log: the handleChoiceSelected calls of this session
                       \* whose id was an id of the current node
    rendered,          \* the last committed render: the storyNodes and
                       \* currentNodeIndex its handlers closed over, and the
                       \* handler calls since then that wrote state
    formData,          \* CharacterCreation's formData
    currentStep        \* CharacterCreation's currentStep

engineVars == <<protagonist, currentNode, gameHistory, isGameStarted,
                isLoading, storyNodes, currentNodeIndex>>

vars == <<protagonist, currentNode, gameHistory, isGameStarted, isLoading,
          storyNodes, currentNodeIndex, activeCardIndex, lastEvent, validCalls,
          rendered, formData, currentStep>>

wizardVars == <<formData, currentStep>>

---------------------------------------------------------------------------
(* Bounds of the model *)

\* choice ids a caller may hand to handleChoiceSelected: 1..MaxChoiceId
MaxChoiceId == 10
\* longest choice list of an arbitrary node (input resolver specification)
MaxChoices == 4
\* longest node sequence handed to the card stack (input resolver specification)
MaxNodes == 5
\* handler calls that write state between two renders (snapshot specification)
MaxPending == 2

(* Program constants *)

threshold == 100
velocityThreshold == 500
stackSize == 3
\* the age the form starts with, and the ends of its range input
defaultAge == 25
minAge == 16
maxAge == 80

---------------------------------------------------------------------------
(* JavaScript values *)

Null == [kind |-> "null"]
Undefined == [kind |-> "undefined"]

\* arr[i]
At(arr, i) == IF i >= 0 /\ i < Len(arr) THEN arr[i + 1] ELSE Undefined

Min(a, b) == IF a <= b THEN a ELSE b
Max(a, b) == IF a >= b THEN a ELSE b

\* arr.slice(start, end) for start >= 0, end >= 0
Slice(arr, start, end) ==
    LET from == Min(start, Len(arr))
        to == Min(end, Len(arr))
        n == Max(to - from, 0)
    IN [k \in 1..n |-> arr[from + k]]

\* Math.abs
Abs(x) == IF x < 0 THEN -x ELSE x

\* choices.find(choice => choice.isAvailable)
RECURSIVE FindAvailable(_)
FindAvailable(choices) ==
    IF choices = <<>> THEN Undefined
    ELSE IF Head(choices).isAvailable THEN Head(choices)
    ELSE FindAvailable(Tail(choices))

\* a find that takes the id for a position in the choice list (the card's
\* props name the argument choiceIndex)
FindChoice_ByPosition(choices, choiceId) == At(choices, choiceId - 1)

\* choices.find(choice => choice.id === choiceId)
RECURSIVE FindChoice(_, _)
FindChoice(choices, choiceId) ==
    IF choices = <<>> THEN Undefined
    ELSE IF Head(choices).id = choiceId THEN Head(choices)
    ELSE FindChoice(Tail(choices), choiceId)

IsAvailable(choice) == choice.isAvailable

\* choices.filter(choice => choice.isAvailable)
AvailableChoices(choices) == SelectSeq(choices, IsAvailable)

---------------------------------------------------------------------------
(* The mock story: createMockStoryNodes *)

Choice(id, text) == [id |-> id, text |-> <<text>>, isAvailable |-> TRUE]

AgeRange(age) ==
    IF age <= 25 THEN "young" ELSE IF age <= 40 THEN "adult" ELSE "elder"

RootText(p) ==
    <<"You are", p.name, AgeRange(p.age), p.gender, p.startingSituation,
      "You find yourself at a crossroads">>

createMockStoryNodes(p) ==
    << [id |-> "root",
        text |-> RootText(p),
        choices |-> << Choice(1, "Take the well-traveled road to the nearby village"),
                       Choice(2, "Venture into the mysterious forest path"),
                       Choice(3, "Set up camp here and wait for morning") >>,
        isEndNode |-> FALSE],
       [id |-> "village_path",
        text |-> <<"The village road is safe but mundane">>,
        choices |-> << Choice(4, "Help the merchant fix their cart"),
                       Choice(5, "Listen to their stories but continue on") >>,
        isEndNode |-> FALSE],
       [id |-> "forest_path",
        text |-> <<"The forest whispers secrets in the wind">>,
        choices |-> << Choice(6, "Follow the mysterious light"),
                       Choice(7, "Head toward the sound of water") >>,
        isEndNode |-> FALSE],
       [id |-> "camp_here",
        text |-> <<"The night brings unexpected visitors">>,
        choices |-> << Choice(8, "Invite them to share your fire"),
                       Choice(9, "Keep to yourself but remain polite") >>,
        isEndNode |-> FALSE] >>

\* the protagonists the character creation step may hand over
Names == {"Ana", "Bo"}
Genders == {"Female", "Other"}
Ages == {25, 40, 41}
Situations == {"You are a scholar searching for ancient knowledge"}

Protagonists ==
    [name : Names, gender : Genders, age : Ages, startingSituation : Situations]

---------------------------------------------------------------------------
(* GameEngine *)

NoEvent == [op |-> "none", arg |-> "", nodeId |-> "", emitted |-> <<>>,
            index |-> 0, histLen |-> 0, drag |-> <<0, 0>>, result |-> "none"]

\* useState({ name: '', gender: '', age: 25, startingSituation: '' })
InitialFormData ==
    [name |-> "", gender |-> "", age |-> defaultAge, startingSituation |-> ""]

Init ==
    /\ protagonist = Null
    /\ currentNode = Null
    /\ gameHistory = <<>>
    /\ isGameStarted = FALSE
    /\ isLoading = FALSE
    /\ storyNodes = <<>>
    /\ currentNodeIndex = 0
    /\ activeCardIndex = 0
    /\ lastEvent = NoEvent
    /\ validCalls = 0
    /\ rendered = [nodes |-> <<>>, index |-> 0, writes |-> 0]
    /\ formData = InitialFormData
    /\ currentStep = 0

\* a history entry that leaves out the node's text
HistoryEntry_ChoiceOnly(node, choice) == choice.text

\* `${currentNode.text} -> ${selectedChoice.text}`
HistoryEntry(node, choice) == node.text \o <<"->">> \o choice.text

\* protagonist?.name
ProtagonistName(p) == IF p = Null THEN "undefined" ELSE p.name

\* an end node that is not marked as one
EndNode_NotTerminal(choiceId, p) ==
    [id |-> "end_" \o ToString(choiceId),
     text |-> <<"Your choice leads to new adventures", ProtagonistName(p)>>,
     choices |-> <<>>,
     isEndNode |-> FALSE]

\* an end node that still offers the choice that led to it
EndNode_WithChoice(choiceId, p) ==
    [id |-> "end_" \o ToString(choiceId),
     text |-> <<"Your choice leads to new adventures", ProtagonistName(p)>>,
     choices |-> <<Choice(choiceId, "Go on")>>,
     isEndNode |-> TRUE]

\* the end node synthesized for a choice
EndNode(choiceId, p) ==
    [id |-> "end_" \o ToString(choiceId),
     text |-> <<"Your choice leads to new adventures", ProtagonistName(p)>>,
     choices |-> <<>>,
     isEndNode |-> TRUE]

RootTarget(choiceId, index) ==
    IF choiceId = 1 THEN 1
    ELSE IF choiceId = 2 THEN 2
    ELSE IF choiceId = 3 THEN 3
    ELSE index

\* navigation to the last node of the array as it is, not to the appended one
NextNodeIndex_LastExisting(node, choiceId, nodes, index) ==
    IF node.id = "root" THEN RootTarget(choiceId, index) ELSE Len(nodes) - 1

\* navigation one past the appended node
NextNodeIndex_PastEnd(node, choiceId, nodes, index) ==
    IF node.id = "root" THEN RootTarget(choiceId, index) ELSE Len(nodes) + 1

\* navigation with the targets of choices 1 and 2 exchanged
NextNodeIndex_RootSwapped(node, choiceId, nodes, index) ==
    IF node.id = "root"
    THEN IF choiceId = 1 THEN 2
         ELSE IF choiceId = 2 THEN 1
         ELSE IF choiceId = 3 THEN 3
         ELSE index
    ELSE Len(nodes)

\* the index handleChoiceSelected navigates to
NextNodeIndex(node, choiceId, nodes, index) ==
    IF node.id = "root" THEN RootTarget(choiceId, index) ELSE Len(nodes)

\* an end node put in front of the node sequence
NextStoryNodes_Prepend(node, choiceId, nodes, p) ==
    IF node.id = "root" THEN nodes ELSE <<EndNode(choiceId, p)>> \o nodes

\* the node sequence handleChoiceSelected leaves
NextStoryNodes(node, choiceId, nodes, p) ==
    IF node.id = "root" THEN nodes ELSE Append(nodes, EndNode(choiceId, p))

handleCharacterCreated(p) ==
    LET nodes == createMockStoryNodes(p) IN
    /\ storyNodes' = nodes
    /\ protagonist' = p
    /\ currentNode' = At(nodes, 0)
    /\ isGameStarted' = TRUE
    /\ UNCHANGED <<gameHistory, isLoading, currentNodeIndex>>

\* a handler that writes a game state built from the history alone, without
\* spreading the previous one
handleChoiceSelected_DropsProtagonist(choiceId) ==
    LET node == At(storyNodes, currentNodeIndex) IN
    IF node = Undefined THEN UNCHANGED engineVars
    ELSE LET selectedChoice == FindChoice(node.choices, choiceId) IN
         IF selectedChoice = Undefined THEN UNCHANGED engineVars
         ELSE LET nextNodeIndex ==
                      NextNodeIndex(node, choiceId, storyNodes, currentNodeIndex)
              IN /\ gameHistory' =
                        Append(gameHistory, HistoryEntry(node, selectedChoice))
                 /\ storyNodes' =
                        NextStoryNodes(node, choiceId, storyNodes, protagonist)
                 /\ currentNodeIndex' = nextNodeIndex
                 /\ currentNode' = At(storyNodes, nextNodeIndex)
                 /\ protagonist' = Null
                 /\ UNCHANGED <<isGameStarted, isLoading>>

handleChoiceSelected(choiceId) ==
    LET node == At(storyNodes, currentNodeIndex) IN
    IF node = Undefined THEN UNCHANGED engineVars
    ELSE LET selectedChoice == FindChoice(node.choices, choiceId) IN
         IF selectedChoice = Undefined THEN UNCHANGED engineVars
         ELSE LET nextNodeIndex ==
                      NextNodeIndex(node, choiceId, storyNodes, currentNodeIndex)
              IN /\ gameHistory' =
                        Append(gameHistory, HistoryEntry(node, selectedChoice))
                 /\ storyNodes' =
                        NextStoryNodes(node, choiceId, storyNodes, protagonist)
                 /\ currentNodeIndex' = nextNodeIndex
                 \* storyNodes here is the array of the render the handler
                 \* was created in, not the one just passed to setStoryNodes
                 /\ currentNode' = At(storyNodes, nextNodeIndex)
                 /\ UNCHANGED <<protagonist, isGameStarted, isLoading>>

\* what a handleChoiceSelected call hands back to its caller: the function
\* is declared without a return value and throws nowhere; it leaves by the
\* bare return of line 77, by that of line 80, or by its end
handleChoiceSelectedReturn(choiceId) ==
    LET node == At(storyNodes, currentNodeIndex) IN
    IF node = Undefined THEN "undefined"
    ELSE IF FindChoice(node.choices, choiceId) = Undefined THEN "undefined"
    ELSE "undefined"

\* a reset that leaves the current index as it is
resetGame_KeepIndex ==
    /\ protagonist' = Null
    /\ currentNode' = Null
    /\ gameHistory' = <<>>
    /\ isGameStarted' = FALSE
    /\ isLoading' = FALSE
    /\ storyNodes' = <<>>
    /\ UNCHANGED currentNodeIndex

resetGame ==
    /\ protagonist' = Null
    /\ currentNode' = Null
    /\ gameHistory' = <<>>
    /\ isGameStarted' = FALSE
    /\ isLoading' = FALSE
    /\ storyNodes' = <<>>
    /\ currentNodeIndex' = 0

---------------------------------------------------------------------------
(* StoryCard: the drag gesture *)

\* the branch handleDragEnd takes for a released drag
SwipeDirection(offsetX, velocityX) ==
    IF Abs(offsetX) > threshold \/ Abs(velocityX) > velocityThreshold
    THEN IF offsetX > 0 THEN "right" ELSE "left"
    ELSE "none"

\* a right swipe that reads the first choice of the node, available or not
RightSwipeChoice_Unfiltered(node) ==
    IF node.choices # <<>> THEN <<node.choices[1].id>> ELSE <<>>

\* the ids handed to onSwipe in the right-swipe branch
RightSwipeChoice(node) ==
    LET firstChoice == FindAvailable(node.choices) IN
    IF firstChoice # Undefined THEN <<firstChoice.id>> ELSE <<>>

\* a left swipe that reads the second choice of the node, available or not
LeftSwipeChoice_Unfiltered(node) ==
    IF Len(node.choices) > 1 THEN <<node.choices[2].id>>
    ELSE IF Len(node.choices) = 1 THEN <<node.choices[1].id>>
    ELSE <<>>

\* the ids handed to onSwipe in the left-swipe branch
LeftSwipeChoice(node) ==
    LET availableChoices == AvailableChoices(node.choices) IN
    IF Len(availableChoices) > 1 THEN <<availableChoices[2].id>>
    ELSE IF Len(availableChoices) = 1 THEN <<availableChoices[1].id>>
    ELSE <<>>

SwipeChoice(node, direction) ==
    IF direction = "right" THEN RightSwipeChoice(node)
    ELSE IF direction = "left" THEN LeftSwipeChoice(node)
    ELSE <<>>

\* the ids handleDragEnd hands to onSwipe, in order
handleDragEnd(node, offsetX, velocityX) ==
    SwipeChoice(node, SwipeDirection(offsetX, velocityX))

---------------------------------------------------------------------------
(* CardStack *)

Keys == {"ArrowLeft", "ArrowRight", "1", "2", "3", "4", "Enter"}

\* parseInt(event.key) for the keys of the digit case
ParseInt(key) == IF key = "1" THEN 1 ELSE IF key = "2" THEN 2 ELSE 3

\* the ids handleKeyPress hands to onChoiceSelected, in order
handleKeyPress(nodes, active, key) ==
    LET node == At(nodes, active) IN
    IF node = Undefined THEN <<>>
    ELSE IF node.isEndNode THEN <<>>
    ELSE LET availableChoices == AvailableChoices(node.choices) IN
         IF key = "ArrowLeft"
         THEN IF Len(availableChoices) > 1 THEN <<availableChoices[2].id>>
              ELSE IF Len(availableChoices) = 1 THEN <<availableChoices[1].id>>
              ELSE <<>>
         ELSE IF key = "ArrowRight"
         THEN IF Len(availableChoices) > 0 THEN <<availableChoices[1].id>>
              ELSE <<>>
         ELSE IF key \in {"1", "2", "3"}
         THEN LET choiceIndex == ParseInt(key) - 1 IN
              IF At(availableChoices, choiceIndex) # Undefined
              THEN <<At(availableChoices, choiceIndex).id>>
              ELSE <<>>
         ELSE <<>>

\* a window that ends one node early
VisibleNodes_OneShort(nodes, active) == Slice(nodes, active, active + stackSize - 1)

\* nodes.slice(activeCardIndex, activeCardIndex + 3)
VisibleNodes(nodes, active) == Slice(nodes, active, active + stackSize)

visibleNodes == VisibleNodes(storyNodes, activeCardIndex)

\* useEffect(() => setActiveCardIndex(currentNodeIndex), [currentNodeIndex])
SyncActiveCard == activeCardIndex' = currentNodeIndex'

\* the render that follows a state change: the handlers it creates close
\* over the new storyNodes and currentNodeIndex
Commit ==
    rendered' = [nodes |-> storyNodes', index |-> currentNodeIndex',
                 writes |-> 0]

---------------------------------------------------------------------------
(* The running application: one action per interaction, from the event to  *)
(* the render and effects that follow it                                   *)

Event(op, arg, nodeId, emitted) ==
    [op |-> op, arg |-> arg, nodeId |-> nodeId, emitted |-> emitted,
     index |-> currentNodeIndex, histLen |-> Len(gameHistory),
     drag |-> <<0, 0>>, result |-> "none"]

\* the log entry of a released drag: info.offset.x and info.velocity.x too
DragEvent(offsetX, velocityX, nodeId, emitted) ==
    [Event("drag", SwipeDirection(offsetX, velocityX), nodeId, emitted)
        EXCEPT !.drag = <<offsetX, velocityX>>]

\* the log entry of an interaction whose emitted id went to
\* handleChoiceSelected: what the call returned too
Returned(event) ==
    [event EXCEPT !.result = IF event.emitted = <<>> THEN "none"
                             ELSE handleChoiceSelectedReturn(event.emitted[1])]

NodeId(node) == IF node = Undefined THEN "" ELSE node.id

\* whether id is the id of a choice of storyNodes[currentNodeIndex]
IdOnCurrentNode(id) ==
    LET node == At(storyNodes, currentNodeIndex) IN
    /\ node # Undefined
    /\ \E i \in 1..Len(node.choices) : node.choices[i].id = id

\* onChoiceSelected = handleChoiceSelected, called once per emitted id
Deliver(emitted) ==
    /\ IF emitted = <<>> THEN UNCHANGED engineVars
       ELSE handleChoiceSelected(emitted[1])
    /\ validCalls' = IF emitted # <<>> /\ IdOnCurrentNode(emitted[1])
                     THEN validCalls + 1 ELSE validCalls

\* the wizard's last step hands over the protagonist; CardStack mounts
CharacterCreated(p) ==
    /\ ~isGameStarted
    /\ handleCharacterCreated(p)
    /\ SyncActiveCard
    /\ lastEvent' = Event("create", "", "", <<>>)
    /\ UNCHANGED validCalls
    /\ Commit
    /\ UNCHANGED wizardVars

\* a drag released on the active card (only the card at stack position 0
\* is draggable)
DragEnd(offsetX, velocityX) ==
    /\ isGameStarted
    /\ visibleNodes # <<>>
    /\ LET node == visibleNodes[1]
           emitted == handleDragEnd(node, offsetX, velocityX)
       IN /\ Deliver(emitted)
          /\ lastEvent' = Returned(DragEvent(offsetX, velocityX,
                                              NodeId(node), emitted))
    /\ SyncActiveCard
    /\ Commit
    /\ UNCHANGED wizardVars

\* a keydown on the window
KeyPress(key) ==
    /\ isGameStarted
    /\ LET emitted == handleKeyPress(storyNodes, activeCardIndex, key)
       IN /\ Deliver(emitted)
          /\ lastEvent' = Returned(Event("key", key,
                                NodeId(At(storyNodes, activeCardIndex)), emitted))
    /\ SyncActiveCard
    /\ Commit
    /\ UNCHANGED wizardVars

\* a click on the k-th choice button of the card at stack position pos;
\* every visible card that is no end node renders its buttons
ClickChoice(pos, k) ==
    /\ isGameStarted
    /\ pos \in 1..Len(visibleNodes)
    /\ LET node == visibleNodes[pos]
           availableChoices == AvailableChoices(node.choices)
       IN /\ ~node.isEndNode
          /\ k \in 1..Len(availableChoices)
          /\ Deliver(<<availableChoices[k].id>>)
          /\ lastEvent' = Returned(Event("click", ToString(pos - 1), NodeId(node),
                                         <<availableChoices[k].id>>))
    /\ SyncActiveCard
    /\ Commit
    /\ UNCHANGED wizardVars

\* onChoiceSelected called with an arbitrary id
ChoiceSelected(choiceId) ==
    /\ isGameStarted
    /\ Deliver(<<choiceId>>)
    /\ lastEvent' = Returned(Event("apply", "",
                          NodeId(At(storyNodes, currentNodeIndex)), <<choiceId>>))
    /\ SyncActiveCard
    /\ Commit
    /\ UNCHANGED wizardVars

\* the New Game button; CardStack unmounts
Reset ==
    /\ isGameStarted
    /\ resetGame
    /\ activeCardIndex' = 0
    /\ lastEvent' = Event("reset", "", "", <<>>)
    /\ validCalls' = 0
    /\ Commit
    /\ UNCHANGED wizardVars

Offsets == {-150, -100, -1, 0, 1, 100, 150}
Velocities == {-600, -500, 0, 500, 600}

Next ==
    \/ \E p \in Protagonists : CharacterCreated(p)
    \/ \E o \in Offsets, v \in Velocities : DragEnd(o, v)
    \/ \E key \in Keys : KeyPress(key)
    \/ \E pos \in 1..stackSize, k \in 1..MaxChoices : ClickChoice(pos, k)
    \/ \E c \in 1..MaxChoiceId : ChoiceSelected(c)
    \/ Reset

Spec == Init /\ [][Next]_vars

---------------------------------------------------------------------------
(* The input resolver on its own: CardStack and StoryCard are components   *)
(* whose props (nodes, currentNodeIndex, onChoiceSelected) any parent may  *)
(* supply.  Here the node under the active index is an arbitrary node, the *)
(* node sequence and the index are arbitrary, and onChoiceSelected only    *)
(* records what it is handed.                                              *)

\* the choice lists of up to MaxChoices choices, each available or not
ChoiceLists ==
    UNION { { [i \in 1..n |-> [id |-> 10 + i,
                               text |-> <<"choice " \o ToString(i)>>,
                               isAvailable |-> avail[i]]]
              : avail \in [1..n -> BOOLEAN] }
            : n \in 0..MaxChoices }

\* the nodes a card may show
NodePool ==
    { [id |-> "card", text |-> <<"card">>, choices |-> cs, isEndNode |-> e]
      : cs \in ChoiceLists, e \in BOOLEAN }

\* the node at array position i of a sequence around a card
Filler(i) ==
    [id |-> "n" \o ToString(i), text |-> <<"filler">>, choices |-> <<>>,
     isEndNode |-> TRUE]

\* a sequence of n nodes whose position `at` (if it has one) holds `card`
NodesAround(card, at, n) == [k \in 1..n |-> IF k = at + 1 THEN card ELSE Filler(k - 1)]

ResolverInit ==
    /\ \E n \in 0..MaxNodes, a \in 0..(MaxNodes + 1), card \in NodePool :
          /\ storyNodes = NodesAround(card, a, n)
          /\ currentNodeIndex = a
          /\ activeCardIndex = a
    /\ protagonist = Null
    /\ currentNode = Null
    /\ gameHistory = <<>>
    /\ isGameStarted = TRUE
    /\ isLoading = FALSE
    /\ lastEvent = NoEvent
    /\ validCalls = 0
    /\ rendered = [nodes |-> storyNodes, index |-> currentNodeIndex,
                   writes |-> 0]
    /\ formData = InitialFormData
    /\ currentStep = 0

ResolverDragEnd(offsetX, velocityX) ==
    /\ visibleNodes # <<>>
    /\ LET node == visibleNodes[1]
           emitted == handleDragEnd(node, offsetX, velocityX)
       IN lastEvent' = DragEvent(offsetX, velocityX, NodeId(node), emitted)
    /\ UNCHANGED <<engineVars, activeCardIndex, validCalls, rendered>>
    /\ UNCHANGED wizardVars

ResolverKeyPress(key) ==
    /\ LET emitted == handleKeyPress(storyNodes, activeCardIndex, key)
       IN lastEvent' = Event("key", key,
                             NodeId(At(storyNodes, activeCardIndex)), emitted)
    /\ UNCHANGED <<engineVars, activeCardIndex, validCalls, rendered>>
    /\ UNCHANGED wizardVars

ResolverClickChoice(pos, k) ==
    /\ pos \in 1..Len(visibleNodes)
    /\ LET node == visibleNodes[pos]
           availableChoices == AvailableChoices(node.choices)
       IN /\ ~node.isEndNode
          /\ k \in 1..Len(availableChoices)
          /\ lastEvent' = Event("click", ToString(pos - 1), NodeId(node),
                                <<availableChoices[k].id>>)
    /\ UNCHANGED <<engineVars, activeCardIndex, validCalls, rendered>>
    /\ UNCHANGED wizardVars

ResolverNext ==
    \/ \E o \in Offsets, v \in Velocities : ResolverDragEnd(o, v)
    \/ \E key \in Keys : ResolverKeyPress(key)
    \/ \E pos \in 1..stackSize, k \in 1..MaxChoices : ResolverClickChoice(pos, k)

ResolverSpec == ResolverInit /\ [][ResolverNext]_vars

---------------------------------------------------------------------------
(* The renders of CardStack.  activeCardIndex is state of CardStack that   *)
(* the effect of lines 59-61 copies from the currentNodeIndex prop; an     *)
(* effect runs after the render it belongs to is committed.  A handler     *)
(* that changes currentNodeIndex is therefore followed by a committed      *)
(* render that still holds the old activeCardIndex, and only then by the   *)
(* effect and the render it causes.  Here the effect is a step of its own; *)
(* the interactions are those of Spec, taken between renders whose effects *)
(* have run.                                                               *)

\* the effect of the last committed render has not run yet
EffectPending == isGameStarted /\ activeCardIndex # currentNodeIndex

RenderDragEnd(offsetX, velocityX) ==
    /\ isGameStarted
    /\ ~EffectPending
    /\ visibleNodes # <<>>
    /\ LET node == visibleNodes[1]
           emitted == handleDragEnd(node, offsetX, velocityX)
       IN /\ Deliver(emitted)
          /\ lastEvent' = Returned(DragEvent(offsetX, velocityX,
                                              NodeId(node), emitted))
    /\ UNCHANGED activeCardIndex
    /\ Commit
    /\ UNCHANGED wizardVars

RenderKeyPress(key) ==
    /\ isGameStarted
    /\ ~EffectPending
    /\ LET emitted == handleKeyPress(storyNodes, activeCardIndex, key)
       IN /\ Deliver(emitted)
          /\ lastEvent' = Returned(Event("key", key,
                                NodeId(At(storyNodes, activeCardIndex)), emitted))
    /\ UNCHANGED activeCardIndex
    /\ Commit
    /\ UNCHANGED wizardVars

RenderClickChoice(pos, k) ==
    /\ isGameStarted
    /\ ~EffectPending
    /\ pos \in 1..Len(visibleNodes)
    /\ LET node == visibleNodes[pos]
           availableChoices == AvailableChoices(node.choices)
       IN /\ ~node.isEndNode
          /\ k \in 1..Len(availableChoices)
          /\ Deliver(<<availableChoices[k].id>>)
          /\ lastEvent' = Returned(Event("click", ToString(pos - 1), NodeId(node),
                                         <<availableChoices[k].id>>))
    /\ UNCHANGED activeCardIndex
    /\ Commit
    /\ UNCHANGED wizardVars

RenderReset ==
    /\ ~EffectPending
    /\ Reset

\* useEffect(() => setActiveCardIndex(currentNodeIndex), [currentNodeIndex])
RunEffect ==
    /\ EffectPending
    /\ activeCardIndex' = currentNodeIndex
    /\ lastEvent' = Event("effect", "", "", <<>>)
    /\ UNCHANGED <<engineVars, validCalls, rendered>>
    /\ UNCHANGED wizardVars

RenderNext ==
    \/ \E p \in Protagonists : CharacterCreated(p)
    \/ \E o \in Offsets, v \in Velocities : RenderDragEnd(o, v)
    \/ \E key \in Keys : RenderKeyPress(key)
    \/ \E pos \in 1..stackSize, k \in 1..MaxChoices : RenderClickChoice(pos, k)
    \/ RenderReset
    \/ RunEffect

RenderSpec == Init /\ [][RenderNext]_vars

---------------------------------------------------------------------------
(* Handlers and the render they belong to.  handleChoiceSelected,          *)
(* handleKeyPress and the cards' handlers are closures created by a        *)
(* render: they read the storyNodes, currentNodeIndex, nodes and           *)
(* activeCardIndex of that render, while setGameState and setStoryNodes    *)
(* are handed updaters that run on the latest queued state.  Nothing in    *)
(* the code makes a render happen between two events.  Here the render is  *)
(* a step of its own, and up to MaxPending handler calls may write state   *)
(* before it is taken.                                                     *)

\* handleChoiceSelected as created by the render `snapshot`
handleChoiceSelectedIn(snapshot, choiceId) ==
    LET node == At(snapshot.nodes, snapshot.index) IN
    IF node = Undefined THEN UNCHANGED engineVars
    ELSE LET selectedChoice == FindChoice(node.choices, choiceId) IN
         IF selectedChoice = Undefined THEN UNCHANGED engineVars
         ELSE LET nextNodeIndex ==
                      NextNodeIndex(node, choiceId, snapshot.nodes, snapshot.index)
              IN \* prev => [...prev.gameHistory, entry]
                 /\ gameHistory' =
                        Append(gameHistory, HistoryEntry(node, selectedChoice))
                 \* prev => [...prev, endNode]
                 /\ storyNodes' =
                        NextStoryNodes(node, choiceId, storyNodes, protagonist)
                 /\ currentNodeIndex' = nextNodeIndex
                 /\ currentNode' = At(snapshot.nodes, nextNodeIndex)
                 /\ UNCHANGED <<protagonist, isGameStarted, isLoading>>

\* whether a call of the render's handleChoiceSelected with id writes state
WritesIn(snapshot, id) ==
    LET node == At(snapshot.nodes, snapshot.index) IN
    /\ node # Undefined
    /\ FindChoice(node.choices, id) # Undefined

\* onChoiceSelected of the last committed render, called once per emitted id
SnapshotDeliver(emitted) ==
    LET wrote == emitted # <<>> /\ WritesIn(rendered, emitted[1]) IN
    /\ IF emitted = <<>> THEN UNCHANGED engineVars
       ELSE handleChoiceSelectedIn(rendered, emitted[1])
    /\ validCalls' = IF wrote THEN validCalls + 1 ELSE validCalls
    /\ rendered' = [rendered EXCEPT !.writes = IF wrote THEN @ + 1 ELSE @]

\* the cards of the last committed render
renderedVisibleNodes == VisibleNodes(rendered.nodes, activeCardIndex)

SnapshotDragEnd(offsetX, velocityX) ==
    /\ isGameStarted
    /\ rendered.writes < MaxPending
    /\ renderedVisibleNodes # <<>>
    /\ LET node == renderedVisibleNodes[1]
           emitted == handleDragEnd(node, offsetX, velocityX)
       IN /\ SnapshotDeliver(emitted)
          /\ lastEvent' = DragEvent(offsetX, velocityX, NodeId(node), emitted)
    /\ UNCHANGED activeCardIndex
    /\ UNCHANGED wizardVars

SnapshotKeyPress(key) ==
    /\ isGameStarted
    /\ rendered.writes < MaxPending
    /\ LET emitted == handleKeyPress(rendered.nodes, activeCardIndex, key)
       IN /\ SnapshotDeliver(emitted)
          /\ lastEvent' = Event("key", key,
                                NodeId(At(rendered.nodes, activeCardIndex)),
                                emitted)
    /\ UNCHANGED activeCardIndex
    /\ UNCHANGED wizardVars

SnapshotClickChoice(pos, k) ==
    /\ isGameStarted
    /\ rendered.writes < MaxPending
    /\ pos \in 1..Len(renderedVisibleNodes)
    /\ LET node == renderedVisibleNodes[pos]
           availableChoices == AvailableChoices(node.choices)
       IN /\ ~node.isEndNode
          /\ k \in 1..Len(availableChoices)
          /\ SnapshotDeliver(<<availableChoices[k].id>>)
          /\ lastEvent' = Event("click", ToString(pos - 1), NodeId(node),
                                <<availableChoices[k].id>>)
    /\ UNCHANGED activeCardIndex
    /\ UNCHANGED wizardVars

\* the render of the queued state and its effects: new handlers, and
\* setActiveCardIndex(currentNodeIndex)
SnapshotRender ==
    /\ isGameStarted
    /\ rendered.writes > 0
    /\ rendered' = [nodes |-> storyNodes, index |-> currentNodeIndex,
                    writes |-> 0]
    /\ activeCardIndex' = currentNodeIndex
    /\ lastEvent' = Event("render", "", "", <<>>)
    /\ UNCHANGED <<engineVars, validCalls>>
    /\ UNCHANGED wizardVars

SnapshotNext ==
    \/ \E p \in Protagonists : CharacterCreated(p)
    \/ \E o \in Offsets, v \in Velocities : SnapshotDragEnd(o, v)
    \/ \E key \in Keys : SnapshotKeyPress(key)
    \/ \E pos \in 1..stackSize, k \in 1..MaxChoices : SnapshotClickChoice(pos, k)
    \/ SnapshotRender
    \/ Reset

SnapshotSpec == Init /\ [][SnapshotNext]_vars

---------------------------------------------------------------------------
(* CharacterCreation: the wizard shown while the game is not started.  In  *)
(* the specifications above it is the step CharacterCreated(p); here its   *)
(* form and its steps are state, and the game is only started and reset.   *)

genderOptions == <<"Male", "Female", "Non-binary", "Other">>

situationOptions ==
    <<"You are a traveling merchant seeking new opportunities",
      "You are a scholar searching for ancient knowledge",
      "You are a warrior looking for purpose after war",
      "You are an artist seeking inspiration",
      "You are a refugee fleeing from conflict",
      "You are an explorer drawn to the unknown">>

steps ==
    <<[field |-> "name", type |-> "text", options |-> <<>>],
      [field |-> "gender", type |-> "select", options |-> genderOptions],
      [field |-> "age", type |-> "range", options |-> <<>>],
      [field |-> "startingSituation", type |-> "select",
       options |-> situationOptions]>>

\* what the text input may hold
TypedNames == {"", "Ana", "Bo"}

\* where the range input may stand
SliderAges == {minAge, defaultAge, 40, 41, maxAge}

\* the values the control of a step can hand to handleInputChange
ControlValues(step) ==
    IF step.type = "text" THEN TypedNames
    ELSE IF step.type = "select"
    THEN {step.options[i] : i \in 1..Len(step.options)}
    ELSE SliderAges

\* a next button that is never disabled
isStepValid_Always == TRUE

\* value !== '' && value !== undefined; the age is a number, which is
\* neither
isStepValid ==
    LET step == At(steps, currentStep) IN
    IF step = Undefined THEN FALSE
    ELSE IF step.type = "range" THEN TRUE
    ELSE formData[step.field] # ""

\* prev => ({ ...prev, [field]: value })
handleInputChange(field, value) ==
    /\ formData' = [formData EXCEPT ![field] = value]
    /\ UNCHANGED currentStep

\* the control of the current step changes the field of that step
InputChange ==
    /\ ~isGameStarted
    /\ LET currentStepData == At(steps, currentStep) IN
       /\ currentStepData # Undefined
       /\ \E value \in ControlValues(currentStepData) :
             handleInputChange(currentStepData.field, value)
    /\ lastEvent' = Event("input", "", "", <<>>)
    /\ UNCHANGED <<engineVars, activeCardIndex, validCalls, rendered>>

\* a click on the next button, which is disabled unless isStepValid()
NextStep ==
    /\ ~isGameStarted
    /\ isStepValid
    /\ IF currentStep < Len(steps) - 1
       THEN /\ currentStep' = currentStep + 1
            /\ lastEvent' = Event("next", "", "", <<>>)
            /\ UNCHANGED <<engineVars, activeCardIndex, validCalls, rendered,
                           formData>>
       ELSE /\ handleCharacterCreated(
                   [name |-> formData.name, gender |-> formData.gender,
                    age |-> formData.age,
                    startingSituation |-> formData.startingSituation])
            /\ SyncActiveCard
            /\ Commit
            /\ lastEvent' = Event("create", "", "", <<>>)
            /\ UNCHANGED <<validCalls, wizardVars>>

\* a click on the previous button, which is disabled on the first step
PreviousStep ==
    /\ ~isGameStarted
    /\ currentStep # 0
    /\ IF currentStep > 0 THEN currentStep' = currentStep - 1
       ELSE UNCHANGED currentStep
    /\ lastEvent' = Event("previous", "", "", <<>>)
    /\ UNCHANGED <<engineVars, activeCardIndex, validCalls, rendered, formData>>

\* the New Game button: the wizard mounts again, with its initial state
WizardReset ==
    /\ isGameStarted
    /\ resetGame
    /\ activeCardIndex' = 0
    /\ lastEvent' = Event("reset", "", "", <<>>)
    /\ validCalls' = 0
    /\ Commit
    /\ formData' = InitialFormData
    /\ currentStep' = 0

WizardNext ==
    \/ InputChange
    \/ NextStep
    \/ PreviousStep
    \/ WizardReset

WizardSpec == Init /\ [][WizardNext]_vars

---------------------------------------------------------------------------
(* Properties *)

\* the positions (from 1) of a node's available choices
AvailablePositions(node) ==
    {i \in 1..Len(node.choices) : node.choices[i].isAvailable}

\* the position of the n-th available choice of a node
NthAvailablePosition(node, n) ==
    CHOOSE i \in AvailablePositions(node) :
        Cardinality({j \in AvailablePositions(node) : j < i}) = n - 1

\* the step taken is a handleChoiceSelected call with an id of the current node
ValidCallStep ==
    /\ lastEvent'.emitted # <<>>
    /\ IdOnCurrentNode(lastEvent'.emitted[1])

\* the step taken is a handleChoiceSelected call with an id that is not on
\* the current node
InvalidCallStep ==
    /\ lastEvent'.emitted # <<>>
    /\ ~IdOnCurrentNode(lastEvent'.emitted[1])

\* C1: on every node, a right swipe resolves to the first available choice
\* in node order; a left swipe resolves to the second available choice when
\* at least two are available and to the only available one when exactly one
\* is; unavailable choices do not count as positions.
C1_SwipeResolvesByAvailablePosition ==
    (lastEvent.op = "drag" /\ lastEvent.arg \in {"left", "right"}) =>
        LET node == At(storyNodes, activeCardIndex)
            count == Cardinality(AvailablePositions(node))
        IN /\ (lastEvent.arg = "right" /\ count >= 1) =>
                  lastEvent.emitted =
                      <<node.choices[NthAvailablePosition(node, 1)].id>>
           /\ (lastEvent.arg = "left" /\ count >= 2) =>
                  lastEvent.emitted =
                      <<node.choices[NthAvailablePosition(node, 2)].id>>
           /\ (lastEvent.arg = "left" /\ count = 1) =>
                  lastEvent.emitted =
                      <<node.choices[NthAvailablePosition(node, 1)].id>>

\* C1 witness: a left swipe on a node of three choices whose first choice is
\* unavailable resolved to the third choice, the second available one
C1_Witness ==
    /\ lastEvent.op = "drag"
    /\ lastEvent.arg = "left"
    /\ LET node == At(storyNodes, activeCardIndex) IN
       /\ node # Undefined
       /\ AvailablePositions(node) = {2, 3}
       /\ lastEvent.emitted = <<node.choices[3].id>>

\* C2: a handleChoiceSelected call with an id that is not on the current node
\* leaves history, current index, node sequence and protagonist unchanged, in
\* every reachable state (hence for any number of such calls in a row).
C2_InvalidChoiceChangesNothing ==
    [][InvalidCallStep =>
          UNCHANGED <<gameHistory, currentNodeIndex, storyNodes, protagonist>>]_vars

\* C2 witness: an id that is not on the current node was handed to
\* handleChoiceSelected after a first choice, and the state is the one before
C2_Witness ==
    /\ lastEvent.emitted # <<>>
    /\ ~IdOnCurrentNode(lastEvent.emitted[1])
    /\ lastEvent.index = currentNodeIndex
    /\ lastEvent.histLen = Len(gameHistory)
    /\ Len(gameHistory) = 1
    /\ validCalls = 1

\* C3: within a session the history length equals the number of valid
\* handleChoiceSelected calls so far; each valid call appends exactly one
\* entry, built from the current node's text and the chosen choice's text,
\* and no other step but a reset changes the history.
C3_HistoryCountsValidCalls ==
    /\ [](Len(gameHistory) = validCalls)
    /\ [][IF lastEvent'.op = "reset" THEN TRUE
          ELSE IF ValidCallStep
          THEN LET node == At(storyNodes, currentNodeIndex)
                   i == CHOOSE k \in 1..Len(node.choices) :
                            node.choices[k].id = lastEvent'.emitted[1]
               IN /\ Len(gameHistory') = Len(gameHistory) + 1
                  /\ SubSeq(gameHistory', 1, Len(gameHistory)) = gameHistory
                  /\ gameHistory'[Len(gameHistory')] =
                         node.text \o <<"->">> \o node.choices[i].text
          ELSE gameHistory' = gameHistory]_vars

\* C3 witness: two valid calls were made and the history holds two entries,
\* the second for a choice of the village node
C3_Witness ==
    /\ validCalls = 2
    /\ Len(gameHistory) = 2
    /\ gameHistory[2] = <<"The village road is safe but mundane", "->",
                          "Listen to their stories but continue on">>

\* C4: every valid handleChoiceSelected call leaves the current index greater
\* than it was before the call.
C4_IndexStrictlyIncreases ==
    [][ValidCallStep => currentNodeIndex' > currentNodeIndex]_vars

\* C4 witness: a valid call on the camp node, the last of the initial nodes,
\* moved the index from 3 to 4
C4_Witness ==
    /\ lastEvent.emitted # <<>>
    /\ lastEvent.nodeId = "camp_here"
    /\ lastEvent.index = 3
    /\ currentNodeIndex = 4
    /\ validCalls = 2

\* C5 as stated: in every reachable state the current index is a position of
\* the node sequence.
C5_IndexAlwaysValid ==
    currentNodeIndex >= 0 /\ currentNodeIndex < Len(storyNodes)

\* C5 as amended: whenever the game is started the current index is a position
\* of the node sequence; before character creation and after a reset the node
\* sequence is empty and the index is 0.
C5_IndexValidWhileStarted ==
    /\ isGameStarted =>
          (currentNodeIndex >= 0 /\ currentNodeIndex < Len(storyNodes))
    /\ ~isGameStarted => (storyNodes = <<>> /\ currentNodeIndex = 0)

\* C5 witness: right after an end node was appended the index is the position
\* of that node
C5_Witness ==
    /\ isGameStarted
    /\ Len(storyNodes) = 5
    /\ currentNodeIndex = 4
    /\ lastEvent.index = 2

\* C6: no step of a session removes, replaces or reorders a node: but for a
\* reset, the node sequence before a step is a prefix of the one after it.
C6_NodeSequenceAppendOnly ==
    [][lastEvent'.op # "reset" =>
          /\ Len(storyNodes') >= Len(storyNodes)
          /\ SubSeq(storyNodes', 1, Len(storyNodes)) = storyNodes]_vars

\* C6 witness: a choice on the forest node appended a node behind the four
\* initial ones, which are still in place
C6_Witness ==
    /\ Len(storyNodes) = 5
    /\ lastEvent.nodeId = "forest_path"
    /\ lastEvent.emitted = <<7>>
    /\ storyNodes[1].id = "root"
    /\ storyNodes[4].id = "camp_here"
    /\ storyNodes[5].id = "end_7"

\* C7: a valid choice on a node that is neither the root nor terminal appends
\* exactly one node, which has no choices and is marked as end node, and
\* leaves the current index at the position of that node, the last one.
C7_NonRootChoiceAppendsTerminalNode ==
    [][(/\ ValidCallStep
        /\ At(storyNodes, currentNodeIndex).id # "root"
        /\ ~At(storyNodes, currentNodeIndex).isEndNode) =>
          /\ Len(storyNodes') = Len(storyNodes) + 1
          /\ SubSeq(storyNodes', 1, Len(storyNodes)) = storyNodes
          /\ storyNodes'[Len(storyNodes')].choices = <<>>
          /\ storyNodes'[Len(storyNodes')].isEndNode
          /\ currentNodeIndex' = Len(storyNodes') - 1]_vars

\* C7 witness: choice 4 on the village node appended the end node end_4, on
\* which the index now stands
C7_Witness ==
    /\ lastEvent.nodeId = "village_path"
    /\ lastEvent.emitted = <<4>>
    /\ Len(storyNodes) = 5
    /\ currentNodeIndex = 4
    /\ At(storyNodes, currentNodeIndex).id = "end_4"
    /\ At(storyNodes, currentNodeIndex).isEndNode

\* C8: on the root node, choice 1, 2 or 3 appends no node and moves the index
\* to the village, forest or camp node (positions 1, 2, 3); a right swipe on
\* the root selects choice 1, moves to the village node and leaves a history
\* of one entry that ends in choice 1's text; a left swipe selects choice 2.
C8_RootChoices ==
    (lastEvent.nodeId = "root" /\ lastEvent.emitted # <<>>) =>
        LET c == lastEvent.emitted[1] IN
        /\ c \in {1, 2, 3} =>
              /\ Len(storyNodes) = 4
              /\ currentNodeIndex = c
              /\ At(storyNodes, currentNodeIndex).id =
                     (IF c = 1 THEN "village_path"
                      ELSE IF c = 2 THEN "forest_path" ELSE "camp_here")
        /\ (lastEvent.op = "drag" /\ lastEvent.arg = "right") =>
              /\ c = 1
              /\ At(storyNodes, currentNodeIndex).id = "village_path"
              /\ Len(gameHistory) = 1
              /\ gameHistory[1][Len(gameHistory[1])] =
                     "Take the well-traveled road to the nearby village"
        /\ (lastEvent.op = "drag" /\ lastEvent.arg = "left") => c = 2

\* C8 witness: a right swipe on the root has moved the game to the village
C8_Witness ==
    /\ lastEvent.op = "drag"
    /\ lastEvent.arg = "right"
    /\ lastEvent.nodeId = "root"
    /\ lastEvent.emitted = <<1>>
    /\ currentNodeIndex = 1

\* C9: a reset yields the initial state: protagonist cleared, node sequence
\* and history empty, index 0, game not started (and no current node, not
\* loading).
C9_ResetYieldsInitialState ==
    lastEvent.op = "reset" =>
        /\ protagonist = Null
        /\ storyNodes = <<>>
        /\ gameHistory = <<>>
        /\ currentNodeIndex = 0
        /\ isGameStarted = FALSE
        /\ currentNode = Null
        /\ isLoading = FALSE

\* C9 witness: a reset after two applied choices, from index 4
C9_Witness ==
    /\ lastEvent.op = "reset"
    /\ lastEvent.histLen = 2
    /\ lastEvent.index = 4
    /\ gameHistory = <<>>
    /\ currentNodeIndex = 0

\* C10: for every node sequence and every index, the lookahead window holds
\* min(3, number of nodes from the index to the end) nodes, which are those
\* nodes in sequence order.
C10_LookaheadWindow ==
    LET remaining == IF Len(storyNodes) > activeCardIndex
                     THEN Len(storyNodes) - activeCardIndex ELSE 0
    IN /\ Len(visibleNodes) = (IF remaining < 3 THEN remaining ELSE 3)
       /\ \A k \in 1..Len(visibleNodes) :
              visibleNodes[k] = storyNodes[activeCardIndex + k]

\* C10 witness: two nodes from the end of a sequence of five the window
\* holds the last two nodes and nothing else
C10_Witness ==
    /\ Len(storyNodes) = 5
    /\ activeCardIndex = 3
    /\ Len(visibleNodes) = 2
    /\ visibleNodes[2] = storyNodes[5]
    /\ lastEvent.op # "none"

\* C11: whenever the card stack is rendered, the lookahead window starts at
\* the node under the engine's current index: activeCardIndex equals
\* currentNodeIndex.
C11_WindowStartsAtCurrentIndex ==
    isGameStarted =>
        /\ activeCardIndex = currentNodeIndex
        /\ visibleNodes # <<>>
        /\ visibleNodes[1] = At(storyNodes, currentNodeIndex)

\* C12: a released drag is right when the displacement is over 100 or the
\* velocity over 500, left when the displacement is under -100 or the velocity
\* under -500, and is discarded otherwise: the direction has the sign of the
\* quantity that crossed its threshold.  (Stated for the drags in which the
\* quantities that crossed agree in sign.)
C12_DirectionFollowsCrossingQuantity ==
    lastEvent.op = "drag" =>
        LET offsetX == lastEvent.drag[1]
            velocityX == lastEvent.drag[2]
            toRight == offsetX > 100 \/ velocityX > 500
            toLeft == offsetX < -100 \/ velocityX < -500
        IN /\ (toRight /\ ~toLeft) => lastEvent.arg = "right"
           /\ (toLeft /\ ~toRight) => lastEvent.arg = "left"
           /\ (~toRight /\ ~toLeft) =>
                  (lastEvent.arg = "none" /\ lastEvent.emitted = <<>>)

DigitOf(key) ==
    IF key = "1" THEN 1 ELSE IF key = "2" THEN 2 ELSE IF key = "3" THEN 3 ELSE 4

NodeWithId(id) ==
    CHOOSE node \in {storyNodes[k] : k \in 1..Len(storyNodes)} : node.id = id

\* C15: one drag release, key press or button click emits at most one
\* choice-selected event; an emitted id is the id of an available choice of
\* the node the interaction was resolved on; on a node without an available
\* choice nothing is emitted.
C15_AtMostOneAvailableChoiceEmitted ==
    lastEvent.op \in {"drag", "key", "click"} =>
        /\ Len(lastEvent.emitted) <= 1
        /\ lastEvent.emitted # <<>> =>
              /\ lastEvent.nodeId # ""
              /\ \E i \in AvailablePositions(NodeWithId(lastEvent.nodeId)) :
                     NodeWithId(lastEvent.nodeId).choices[i].id =
                         lastEvent.emitted[1]
        /\ (lastEvent.nodeId = ""
              \/ AvailablePositions(NodeWithId(lastEvent.nodeId)) = {}) =>
              lastEvent.emitted = <<>>

\* C15 witness: a right swipe on a node that is no end node and whose two
\* choices are both unavailable emitted nothing
C15_Witness ==
    /\ lastEvent.op = "drag"
    /\ lastEvent.arg = "right"
    /\ lastEvent.nodeId = "card"
    /\ lastEvent.emitted = <<>>
    /\ ~NodeWithId("card").isEndNode
    /\ Len(NodeWithId("card").choices) = 2
    /\ AvailablePositions(NodeWithId("card")) = {}

\* C16: a choice applied while the current node is an end node is signalled
\* to the caller (the call does not come back like a call that was carried
\* out) and leaves the navigation state unchanged.
C16_TerminalChoiceSignalled ==
    [][(/\ lastEvent'.emitted # <<>>
        /\ At(storyNodes, currentNodeIndex) # Undefined
        /\ At(storyNodes, currentNodeIndex).isEndNode) =>
          /\ lastEvent'.result # "undefined"
          /\ UNCHANGED <<gameHistory, currentNodeIndex, storyNodes>>]_vars

\* C19: in every reachable node sequence, every node that is no end node has
\* at least one available choice, and every node without choices is marked
\* as end node.
C19_NodesWellFormed ==
    \A k \in 1..Len(storyNodes) :
        /\ ~storyNodes[k].isEndNode => AvailablePositions(storyNodes[k]) # {}
        /\ storyNodes[k].choices = <<>> => storyNodes[k].isEndNode

\* C19 witness: the sequence holds the four initial nodes and a synthesized
\* one, which has no choices
C19_Witness ==
    /\ Len(storyNodes) = 5
    /\ storyNodes[5].id = "end_9"
    /\ storyNodes[5].choices = <<>>
    /\ ~storyNodes[1].isEndNode

\* C20: the protagonist is set once per session, by character creation, is
\* left as it is by every handleChoiceSelected call, valid or not, and is
\* cleared by nothing but a reset.
C20_ProtagonistSetOnce ==
    [][/\ lastEvent'.emitted # <<>> => protagonist' = protagonist
       /\ protagonist' # protagonist =>
             \/ /\ lastEvent'.op = "create"
                /\ protagonist = Null
                /\ protagonist' \in Protagonists
             \/ /\ lastEvent'.op = "reset"
                /\ protagonist' = Null]_vars

\* C20 witness: after two valid choices and an invalid one the protagonist is
\* the one character creation handed over, whom the end node's text names
C20_Witness ==
    /\ validCalls = 2
    /\ lastEvent.emitted # <<>>
    /\ lastEvent.histLen = 2
    /\ protagonist \in Protagonists
    /\ protagonist.name = "Bo"
    /\ storyNodes[1].text[2] = "Bo"
    /\ storyNodes[5].text[2] = "Bo"

\* C21: whenever the game is started, the currentNode field of the game state
\* is the node at the current index of the node sequence, after character
\* creation and after every valid choice, the one that appends a terminal
\* node included.
C21_CurrentNodeIsNodeAtIndex ==
    isGameStarted => currentNode = At(storyNodes, currentNodeIndex)

\* the interactions that can hand a choice id to handleChoiceSelected
ChoiceInputs == {"drag", "key", "click", "apply"}

C23_SecondDeliveryOnSnapshotIgnored ==
    [][(/\ rendered.writes >= 1
        /\ rendered'.writes > rendered.writes) =>
          /\ gameHistory' = gameHistory
          /\ storyNodes' = storyNodes
          /\ Len(storyNodes') > Len(rendered.nodes) =>
                currentNodeIndex' = Len(storyNodes') - 1]_vars

\* whether a field of the form holds a value other than ''
FieldNonEmpty(field) ==
    IF field = "age" THEN formData.age \in Int ELSE formData[field] # ""

\* C24: in the character-creation wizard, over any sequence of input
\* changes, Next and Previous actions (Next enabled only when the current
\* step's field is non-empty), the step index stays within 0..3, every field
\* of a step before the current one is non-empty, and onCharacterCreated is
\* invoked only from the last step, with a non-empty name, gender and
\* starting situation.
C24_WizardStepsInOrder ==
    /\ [](~isGameStarted =>
            /\ currentStep \in 0..3
            /\ \A k \in 0..(currentStep - 1) :
                  FieldNonEmpty(At(steps, k).field))
    /\ [][(~isGameStarted /\ isGameStarted') =>
             /\ currentStep = 3
             /\ protagonist' # Null
             /\ protagonist'.name = formData.name
             /\ protagonist'.name # ""
             /\ protagonist'.gender # ""
             /\ protagonist'.startingSituation # ""]_vars

\* C24 witness: from its last step the wizard handed over a protagonist with
\* a typed name, a chosen gender, the slider moved to its end and a chosen
\* situation, and the game started with it
C24_Witness ==
    /\ isGameStarted
    /\ lastEvent.op = "create"
    /\ currentStep = 3
    /\ protagonist # Null
    /\ protagonist.name = "Bo"
    /\ protagonist.gender = "Non-binary"
    /\ protagonist.age = maxAge
    /\ protagonist.startingSituation = situationOptions[5]
    /\ storyNodes[1].id = "root"

=============================================================================
